---- MODULE Spec2Model ----
(***************************************************************************)
(* A model of the prodigy-pdf recipes: pdf.image.manual and its page       *)
(* generator, fold_ocr_dashes, the LayoutStream behind pdf.spans.manual    *)
(* and pdf.layout.fetch, and the task loop of pdf.ocr.correct.             *)
(*                                                                         *)
(* Python dicts are records; "key in eg" is  key \in DOMAIN eg,  del is a  *)
(* restriction of the domain, an assignment to a key is an override.       *)
(* Python strings that the code inspects are sequences of one-character    *)
(* strings.  A generator is a program counter (pc) plus its locals (loc);  *)
(* one action runs it from one suspension point to the next.               *)
(***************************************************************************)
EXTENDS Integers, Sequences, FiniteSets, TLC

VARIABLES
    entry,      \* the recipe (or function) this run invokes
    exists,     \* the source folder exists
    dir,        \* the names of the entries of the source folder
    npages,     \* page count of every PDF file
    pagespans,  \* what the layout model finds on page i of a document
    args,       \* the recipe's arguments
    pc,         \* where the recipe / its generator stands
    error,      \* the failure that ended the run ("" while there is none)
    msgs,       \* messages printed with msg.fail / msg.good
    paths,      \* the files the recipe found
    loc,        \* the generator's locals
    handles,    \* PdfDocument handles that are open
    held,       \* the handle the generator's local `pdf` refers to (0: none)
    nopened,    \* number of PdfDocument handles opened so far
    hashed,     \* every task as it was when set_hashes ran on it
    out,        \* the tasks the consumer received, in order
    db,         \* the examples stored in the database
    config,     \* the "config" of the returned components
    jsonl,      \* the file written by pdf.layout.fetch
    source,     \* the examples pdf.ocr.correct reads
    ocr_input,  \* the argument of fold_ocr_dashes
    folded      \* its result

vars == <<entry, exists, dir, npages, pagespans, args, pc, error, msgs, paths,
          loc, handles, held, nopened, hashed, out, db, config, jsonl, source,
          ocr_input, folded>>

fsvars == <<exists, dir, npages, pagespans>>

(* ----------------------------- bounds --------------------------------- *)

MaxFiles == 2       \* entries in the source folder
MaxPages == 2       \* pages of one PDF
MaxLabels == 15     \* labels on the command line
MaxLen == 4         \* characters of an OCR result
MaxScale == 3       \* the zoom scale of pdf.ocr.correct
MaxSource == 2      \* examples in the source of pdf.ocr.correct
MaxCoord == 2       \* coordinates and extents of a drawn region

(* ------------------------- generic helpers ---------------------------- *)

Set(k, v, d) == (k :> v) @@ d

Del(k, d) == [x \in DOMAIN d \ {k} |-> d[x]]

Get(d, k, default) == IF k \in DOMAIN d THEN d[k] ELSE default

Range(s) == {s[i] : i \in DOMAIN s}

RECURSIVE Concat(_)
Concat(ss) == IF ss = <<>> THEN <<>> ELSE Head(ss) \o Concat(Tail(ss))

Perms(S) == {p \in [1..Cardinality(S) -> S] : \A i, j \in DOMAIN p : p[i] = p[j] => i = j}

(* --------------------------- the file system -------------------------- *)

\* The entries a source folder may hold, in the order sorted() gives them.
SortedEntries ==
    << [name |-> ".c.pdf",  first |-> ".", suffix |-> "pdf", is_file |-> TRUE],
       [name |-> "a.pdf",   first |-> "a", suffix |-> "pdf", is_file |-> TRUE],
       [name |-> "b.PDF",   first |-> "b", suffix |-> "PDF", is_file |-> TRUE],
       [name |-> "d.txt",   first |-> "d", suffix |-> "txt", is_file |-> TRUE],
       [name |-> "sub.pdf", first |-> "s", suffix |-> "pdf", is_file |-> FALSE] >>

EntryNames == {e.name : e \in Range(SortedEntries)}

Entry(n) == CHOOSE e \in Range(SortedEntries) : e.name = n

\* A file PdfDocument can open.
IsPdf(n) == Entry(n).is_file /\ Entry(n).suffix \in {"pdf", "PDF"}

PdfNames == {n \in EntryNames : IsPdf(n)}

Lower(s) == IF s = "PDF" THEN "pdf" ELSE s

iterdir == SelectSeq([i \in DOMAIN SortedEntries |-> SortedEntries[i].name], LAMBDA n : n \in dir)

\* Path(pdf_folder).glob("*.pdf"): the match is case sensitive and takes
\* hidden files and directories; the order is the file system's.
glob == {n \in dir : Entry(n).suffix = "pdf"}

InitFs ==
    /\ exists \in BOOLEAN
    /\ dir \in {d \in SUBSET EntryNames : Cardinality(d) <= MaxFiles /\ (~exists => d = {})}
    /\ npages \in {f \in [PdfNames -> 1..MaxPages] : \A n \in PdfNames \ dir : f[n] = 1}

(* ----------------------- images and set_hashes ------------------------ *)

\* The data URI of a rendered page: f"data:image/png;base64,{...}".
page_to_image(path, page_number) ==
    [scheme |-> "data:", mime |-> "image/png;base64,", of |-> <<path, page_number>>]

startswith_data(s) == s.scheme = "data:"

set_hashes(task) == Set("_input_hash", "hash", Set("_task_hash", "hash", task))

(* --------------------------- fold_ocr_dashes -------------------------- *)

Chars == {"a", "-", " ", "\n"}

IsSpace(c) == c \in {" ", "\n"}

RECURSIVE lstrip(_)
lstrip(s) == IF s # <<>> /\ IsSpace(Head(s)) THEN lstrip(Tail(s)) ELSE s

RECURSIVE rstrip(_)
rstrip(s) == IF s # <<>> /\ IsSpace(s[Len(s)]) THEN rstrip(SubSeq(s, 1, Len(s) - 1)) ELSE s

strip(s) == rstrip(lstrip(s))

\* s.split(sep) for a one-character sep: the pieces between the separators.
RECURSIVE split(_, _)
split(s, sep) ==
    IF \A i \in DOMAIN s : s[i] # sep THEN <<s>>
    ELSE LET i == CHOOSE k \in DOMAIN s : s[k] = sep /\ \A j \in 1..(k - 1) : s[j] # sep
         IN  <<SubSeq(s, 1, i - 1)>> \o split(SubSeq(s, i + 1, Len(s)), sep)

\* s.rfind(c), as a 1-based position; 0 stands for Python's -1.
rfind(s, c) ==
    IF \A i \in DOMAIN s : s[i] # c THEN 0
    ELSE CHOOSE k \in DOMAIN s : s[k] = c /\ \A j \in (k + 1)..Len(s) : s[j] # c

fold_line(raw) ==
    LET line == strip(raw)
    IN  IF rfind(line, "-") = 0 THEN line \o <<" ">>
        ELSE SubSeq(line, 1, rfind(line, "-") - 1)

fold_ocr_dashes(text) ==
    LET lines == split(text, "\n")
    IN  strip(Concat([i \in DOMAIN lines |-> fold_line(lines[i])]))

OcrTexts == UNION {[1..n -> Chars] : n \in 0..MaxLen}

(* ------------------------- pdf.image.manual --------------------------- *)

color == << "#00ffff", "#ff00ff", "#00ff7f", "#ff6347", "#00bfff", "#ffa500",
            "#ff69b4", "#7fffd4", "#ffd700", "#ffdab9", "#adff2f", "#d2b48c",
            "#dcdcdc", "#ffff00" >>

\* The label string "x,xx,xxx,..." with n labels, label i being i times "x".
RECURSIVE LabelString(_)
LabelString(n) ==
    IF n = 0 THEN <<>>
    ELSE (IF n = 1 THEN <<>> ELSE LabelString(n - 1) \o <<",">>) \o [j \in 1..n |-> "x"]

LabelStrings ==
    {LabelString(n) : n \in {1, 2, Len(color), MaxLabels}} \cup {<<"x", ",", "x">>}

DefaultArgs ==
    [split_pages |-> FALSE, remove_base64 |-> FALSE, labels |-> <<"x">>,
     hide_preview |-> FALSE, focus |-> {}, disable |-> {}, add_ents |-> FALSE,
     from_file |-> FALSE, scale |-> 3, fold_dashes |-> FALSE, ocr_labels |-> {},
     autofocus |-> FALSE]

NoLoc ==
    [fi |-> 0, pn |-> 0, si |-> 0, pages |-> <<>>, images |-> <<>>,
     useful_spans |-> <<>>, pil_page |-> [path |-> "", page |-> 0, scale |-> 0]]

InitRun ==
    /\ pc = "start" /\ error = "" /\ msgs = <<>> /\ paths = <<>> /\ loc = NoLoc
    /\ handles = {} /\ held = 0 /\ nopened = 0
    /\ hashed = <<>> /\ out = <<>> /\ db = <<>> /\ config = [labels |-> <<>>]
    /\ jsonl = <<>>

InitImage ==
    /\ entry = "pdf.image.manual"
    /\ InitFs /\ pagespans = <<>>
    /\ args \in {[DefaultArgs EXCEPT !.split_pages = s, !.remove_base64 = r, !.labels = l] :
                    s \in BOOLEAN, r \in BOOLEAN, l \in LabelStrings}
    /\ InitRun
    /\ source = <<>> /\ ocr_input = <<>> /\ folded = <<>>

\* {lab: color[i] for i, lab in enumerate(labs)}: a later duplicate wins.
label_colors(labs) ==
    [lab \in Range(labs) |->
        color[CHOOSE i \in DOMAIN labs : labs[i] = lab /\ \A j \in DOMAIN labs : labs[j] = lab => j <= i]]

\* The body of the recipe function, up to the returned components.
pdf_image_manual ==
    /\ entry = "pdf.image.manual" /\ pc = "start"
    /\ IF ~exists
       THEN /\ msgs' = Append(msgs, "Folder does not exist.")
            /\ error' = "SystemExit"
            /\ pc' = "exited"
            /\ UNCHANGED <<paths, config>>
       ELSE /\ \E order \in Perms(glob) : paths' = order
            /\ msgs' = IF glob = {} THEN Append(msgs, "Did not find any .pdf files in folder.")
                       ELSE msgs
            /\ LET labs == split(args.labels, ",")
               IN  IF Len(labs) > Len(color)
                   THEN /\ error' = "IndexError" /\ pc' = "raised" /\ UNCHANGED config
                   ELSE /\ config' = [labels |-> labs, custom_theme |-> [labels |-> label_colors(labs)]]
                        /\ pc' = "gpp_for" /\ UNCHANGED error
    /\ UNCHANGED <<entry, fsvars, args, loc, handles, held, nopened, hashed, out, db,
                   jsonl, source, ocr_input, folded>>

\* for pdf_path in pdf_paths: pdf = pdfium.PdfDocument(pdf_path)
gpp_open ==
    /\ pc = "gpp_for" /\ loc.fi < Len(paths)
    /\ LET path == paths[loc.fi + 1]
       IN  IF IsPdf(path)
           THEN /\ nopened' = nopened + 1
                /\ handles' = handles \cup {nopened + 1}
                /\ held' = nopened + 1
                /\ loc' = [loc EXCEPT !.fi = loc.fi + 1, !.pn = 0, !.pages = <<>>]
                /\ pc' = "gpp_page"
                /\ UNCHANGED error
           ELSE /\ error' = "PdfiumError" /\ pc' = "raised"
                /\ UNCHANGED <<nopened, handles, held, loc>>
    /\ UNCHANGED <<entry, fsvars, args, msgs, paths, hashed, out, db, config, jsonl,
                   source, ocr_input, folded>>

\* One iteration of  for page_number in range(n_pages).
gpp_page ==
    /\ pc = "gpp_page" /\ loc.pn < npages[paths[loc.fi]]
    /\ LET pdf_path == paths[loc.fi]
           page == [image |-> page_to_image(pdf_path, loc.pn),
                    path |-> pdf_path,
                    meta |-> [title |-> pdf_path, page |-> loc.pn]]
       IN  IF args.split_pages
           THEN /\ hashed' = Append(hashed, set_hashes(page))
                /\ out' = Append(out, set_hashes(page))
                /\ loc' = [loc EXCEPT !.pn = loc.pn + 1]
           ELSE /\ loc' = [loc EXCEPT !.pn = loc.pn + 1,
                                      !.pages = Append(loc.pages, Set("view_id", "image_manual", page))]
                /\ UNCHANGED <<hashed, out>>
    /\ UNCHANGED <<entry, fsvars, args, pc, error, msgs, paths, handles, held, nopened,
                   db, config, jsonl, source, ocr_input, folded>>

\* if not split_pages: yield set_hashes({"pages": pages, ...})
gpp_bundle ==
    /\ pc = "gpp_page" /\ loc.pn = npages[paths[loc.fi]] /\ ~args.split_pages
    /\ LET task == set_hashes([pages |-> loc.pages,
                               meta |-> [title |-> paths[loc.fi]],
                               config |-> [view_id |-> "pages"]])
       IN  /\ hashed' = Append(hashed, task)
           /\ out' = Append(out, task)
    /\ pc' = "gpp_close"
    /\ UNCHANGED <<entry, fsvars, args, error, msgs, paths, loc, handles, held, nopened,
                   db, config, jsonl, source, ocr_input, folded>>

\* pdf.close()
gpp_close ==
    /\ \/ pc = "gpp_close"
       \/ pc = "gpp_page" /\ loc.pn = npages[paths[loc.fi]] /\ args.split_pages
    /\ handles' = handles \ {held}
    /\ pc' = "gpp_for"
    /\ UNCHANGED <<entry, fsvars, args, error, msgs, paths, loc, held, nopened, hashed,
                   out, db, config, jsonl, source, ocr_input, folded>>

\* The for loop over pdf_paths is exhausted: the generator returns.
gpp_end ==
    /\ pc = "gpp_for" /\ loc.fi = Len(paths)
    /\ pc' = "done"
    /\ UNCHANGED <<entry, fsvars, args, error, msgs, paths, loc, handles, held, nopened,
                   hashed, out, db, config, jsonl, source, ocr_input, folded>>

\* before_db of pdf_image_manual on one answered example.
image_before_db(eg) ==
    IF "image" \notin DOMAIN eg THEN [raised |-> "KeyError", eg |-> eg]
    ELSE LET eg1 == IF startswith_data(eg["image"]) THEN Del("image", eg) ELSE eg
             pgs == Get(eg1, "pages", <<>>)
         IN  IF \E i \in DOMAIN pgs : "image" \notin DOMAIN pgs[i]
             THEN [raised |-> "KeyError", eg |-> eg1]
             ELSE [raised |-> "",
                   eg |-> IF "pages" \in DOMAIN eg1
                          THEN Set("pages",
                                   [i \in DOMAIN pgs |->
                                       IF startswith_data(pgs[i]["image"]) THEN Del("image", pgs[i])
                                       ELSE pgs[i]], eg1)
                          ELSE eg1]

\* The controller stores the next answered example, through before_db when
\* the recipe returned one.
store_image ==
    /\ entry = "pdf.image.manual"
    /\ pc \notin {"start", "exited", "raised"}
    /\ Len(db) < Len(out)
    /\ LET eg == out[Len(db) + 1]
       IN  IF ~args.remove_base64
           THEN db' = Append(db, eg) /\ UNCHANGED <<pc, error>>
           ELSE LET r == image_before_db(eg)
                IN  IF r.raised # ""
                    THEN error' = r.raised /\ pc' = "raised" /\ UNCHANGED db
                    ELSE db' = Append(db, r.eg) /\ UNCHANGED <<pc, error>>
    /\ UNCHANGED <<entry, fsvars, args, msgs, paths, loc, handles, held, nopened, hashed,
                   out, config, jsonl, source, ocr_input, folded>>

(* ------------------ fold_ocr_dashes called directly ------------------- *)

InitFold ==
    /\ entry = "fold_ocr_dashes"
    /\ exists = FALSE /\ dir = {} /\ npages = [n \in PdfNames |-> 1] /\ pagespans = <<>>
    /\ args = DefaultArgs
    /\ InitRun
    /\ source = <<>>
    /\ ocr_input \in OcrTexts /\ folded = <<>>

call_fold_ocr_dashes ==
    /\ entry = "fold_ocr_dashes" /\ pc = "start"
    /\ folded' = fold_ocr_dashes(ocr_input)
    /\ pc' = "done"
    /\ UNCHANGED <<entry, fsvars, args, error, msgs, paths, loc, handles, held, nopened,
                   hashed, out, db, config, jsonl, source, ocr_input>>

(* ----------------------- the layout model's output -------------------- *)

SEPARATOR == <<"\n", "\n">>

HEADINGS == {"section_header", "page_header", "title"}

FONT_SIZE_HEADING == 18

\* Spans as spacy-layout returns them: a label, the span's tokens (the last
\* one without trailing whitespace) and the span's bounding box.
SpanTitle ==
    [label |-> "title", id |-> 1,
     tokens |-> << [text |-> <<"b", "c">>, ws |-> FALSE] >>,
     layout |-> [x |-> 1, y |-> 1, width |-> 4, height |-> 1]]

SpanText ==
    [label |-> "text", id |-> 2,
     tokens |-> << [text |-> <<"a">>, ws |-> TRUE], [text |-> <<"b", "c">>, ws |-> FALSE] >>,
     layout |-> [x |-> 1, y |-> 3, width |-> 4, height |-> 2]]

SpanFootnote ==
    [label |-> "footnote", id |-> 3,
     tokens |-> << [text |-> <<"a">>, ws |-> FALSE], [text |-> <<".">>, ws |-> FALSE] >>,
     layout |-> [x |-> 1, y |-> 6, width |-> 2, height |-> 1]]

PageChoices == { <<SpanTitle, SpanText>>, <<SpanFootnote>>, <<SpanText, SpanFootnote>> }

PageWidth == 6

PageHeight == 8

\* span.text: the tokens with their whitespace, without the last token's.
span_text(span) ==
    Concat([i \in DOMAIN span.tokens |->
              span.tokens[i].text \o
              (IF span.tokens[i].ws /\ i < Len(span.tokens) THEN <<" ">> ELSE <<>>)])

\* sep.join(parts)
RECURSIVE join(_, _)
join(sep, parts) ==
    IF parts = <<>> THEN <<>>
    ELSE IF Len(parts) = 1 THEN parts[1]
    ELSE parts[1] \o sep \o join(sep, Tail(parts))

\* The tokens of one span as the Doc holds them, each with the label
\* get_token_labels gives it (the label of the span that contains it).
span_doc(span) ==
    [i \in DOMAIN span.tokens |->
        [text |-> span.tokens[i].text, ws |-> span.tokens[i].ws, label |-> span.label]]

SeparatorToken == [text |-> SEPARATOR, ws |-> FALSE, label |-> "None"]

\* doc[page_spans[0].start : page_spans[-1].end]: the spans of the page with
\* the separator token the layout component puts between two spans.
RECURSIVE page_doc(_)
page_doc(page_spans) ==
    IF Len(page_spans) = 1 THEN span_doc(page_spans[1])
    ELSE span_doc(page_spans[1]) \o <<SeparatorToken>> \o page_doc(Tail(page_spans))

\* What  offset += ...  adds after a token.
advance(token) == Len(token.text)

layout_token(token, i, offset) ==
    LET token_dict == [text |-> token.text, start |-> offset, end |-> offset + Len(token.text),
                       id |-> i, ws |-> token.ws, layout |-> token.label]
        d1 == IF token.text = SEPARATOR
              THEN Set("style", [display |-> "none"], Set("disabled", TRUE, token_dict))
              ELSE token_dict
    IN  IF token.label \in HEADINGS
        THEN Set("style", [fontWeight |-> "bold", fontSize |-> FONT_SIZE_HEADING], d1)
        ELSE d1

RECURSIVE layout_tokens_from(_, _, _)
layout_tokens_from(doc, i, offset) ==
    IF i > Len(doc) THEN <<>>
    ELSE <<layout_token(doc[i], i - 1, offset)>>
         \o layout_tokens_from(doc, i + 1, offset + advance(doc[i]))

get_layout_tokens(doc) == layout_tokens_from(doc, 1, 0)

(* ----------------------------- LayoutStream --------------------------- *)

\* self.paths of LayoutStream.__init__
layout_paths ==
    SelectSeq(iterdir, LAMBDA n : /\ Entry(n).is_file
                                  /\ Entry(n).first # "."
                                  /\ Lower(Entry(n).suffix) \in {"pdf"})

\* hide_preview as the LayoutStream was given it: pdf.layout.fetch passes False.
stream_hide == IF entry = "pdf.layout.fetch" THEN FALSE ELSE args.hide_preview

full_blocks ==
    <<[view_id |-> "spans_manual"]>>
    \o (IF ~stream_hide THEN <<[view_id |-> "image", spans |-> <<>>]>> ELSE <<>>)

\* The page dict get_full_stream builds for page i (0-based) of file_path.
full_page(file_path, i, images) ==
    LET page_spans == pagespans[i]
        page == [text |-> join(SEPARATOR, [k \in DOMAIN page_spans |-> span_text(page_spans[k])]),
                 tokens |-> get_layout_tokens(page_doc(page_spans)),
                 width |-> PageWidth, height |-> PageHeight,
                 view_id |-> "blocks",
                 config |-> [blocks |-> full_blocks]]
    IN  IF ~stream_hide /\ images # <<>> THEN Set("image", images[i + 1], page) ELSE page

\* Tokens and characters of the Doc that precede span si of page pn.
RECURSIVE spans_before(_, _)
spans_before(pn, si) ==
    IF pn = 0 /\ si = 1 THEN <<>>
    ELSE IF si = 1 THEN spans_before(pn - 1, Len(pagespans[pn - 1]) + 1)
    ELSE Append(spans_before(pn, si - 1), pagespans[pn][si - 1])

RECURSIVE sum_seq(_)
sum_seq(s) == IF s = <<>> THEN 0 ELSE Head(s) + sum_seq(Tail(s))

span_start(pn, si) ==
    LET b == spans_before(pn, si) IN sum_seq([k \in DOMAIN b |-> Len(b[k].tokens) + 1])

span_start_char(pn, si) ==
    LET b == spans_before(pn, si)
    IN  sum_seq([k \in DOMAIN b |-> Len(span_text(b[k])) + Len(SEPARATOR)])

\* The task get_focus_stream builds for span si of page pn (0-based page).
focus_task(file_path, pn, si, images) ==
    LET span == pagespans[pn][si]
        blocks == <<[view_id |-> "spans_manual"]>>
                  \o (IF ~stream_hide
                      THEN <<[view_id |-> "image",
                              spans |-> <<[x |-> span.layout.x, y |-> span.layout.y,
                                           width |-> span.layout.width,
                                           height |-> span.layout.height,
                                           color |-> "magenta", id |-> span.id]>>]>>
                      ELSE <<>>)
        eg == [text |-> span_text(span),
               tokens |-> get_layout_tokens(span_doc(span)),
               width |-> PageWidth, height |-> PageHeight,
               view_id |-> "blocks",
               config |-> [blocks |-> blocks],
               text_span |-> [token_start |-> span_start(pn, si),
                              token_end |-> span_start(pn, si) + Len(span.tokens) - 1,
                              start |-> span_start_char(pn, si),
                              end |-> span_start_char(pn, si) + Len(span_text(span)),
                              text |-> span_text(span),
                              label |-> span.label],
               meta |-> [title |-> file_path, page |-> pn + 1]]
    IN  IF ~stream_hide /\ images # <<>> THEN Set("image", images[pn + 1], eg) ELSE eg

(* ------------------- the wrappers of pdf.spans.manual ----------------- *)

\* What the named-entity recogniser may find in a text: nothing, or one
\* entity on its first character.
Entities == { <<>>, <<[start |-> 0, end |-> 1, label |-> "ENT"]>> }

\* preprocess_ner_stream (prodigy): pre-annotates the text of a task.
preprocess_ner(eg, ents) == IF "text" \in DOMAIN eg THEN Set("spans", ents, eg) ELSE eg

disable_token(token, disabled) ==
    IF Get(token, "layout", "None") \in disabled THEN Set("disabled", TRUE, token) ELSE token

disable_tokens(eg, disabled) ==
    IF "tokens" \in DOMAIN eg
    THEN Set("tokens", [i \in DOMAIN eg["tokens"] |-> disable_token(eg["tokens"][i], disabled)], eg)
    ELSE eg

remove_preview(eg, view_id) ==
    LET cfg == Get(eg, "config", [none |-> TRUE])
        eg1 == IF "blocks" \in DOMAIN cfg
               THEN Set("config", Set("blocks", <<[view_id |-> view_id]>>, cfg), eg)
               ELSE eg
    IN  IF "image" \in DOMAIN eg1 THEN Del("image", eg1) ELSE eg1

\* stream.apply(...) in the order pdf_spans_manual applies them.
spans_pipeline(eg, ents) ==
    LET e1 == IF args.add_ents THEN preprocess_ner(eg, ents) ELSE eg
        e2 == IF args.disable # {} THEN disable_tokens(e1, args.disable) ELSE e1
    IN  IF args.hide_preview THEN remove_preview(e2, "spans_manual") ELSE e2

add_answer(eg) == Set("answer", "accept", eg)

\* A task leaves the LayoutStream: pdf.layout.fetch writes it, with an
\* answer, to its output; pdf.spans.manual passes it through its wrappers
\* to the consumer.
Emit(task) ==
    /\ hashed' = Append(hashed, task)
    /\ IF entry = "pdf.layout.fetch"
       THEN jsonl' = Append(jsonl, add_answer(task)) /\ UNCHANGED out
       ELSE /\ \E ents \in (IF args.add_ents THEN Entities ELSE {<<>>}) :
                  out' = Append(out, spans_pipeline(task, ents))
            /\ UNCHANGED jsonl

InitLayout ==
    /\ entry \in {"pdf.spans.manual", "pdf.layout.fetch"}
    /\ InitFs /\ pagespans \in [0..(MaxPages - 1) -> PageChoices]
    /\ args \in {[DefaultArgs EXCEPT !.split_pages = s, !.focus = f, !.hide_preview = h,
                                     !.disable = d, !.add_ents = e] :
                    s \in BOOLEAN, f \in {{}, {"text"}},
                    h \in (IF entry = "pdf.spans.manual" THEN BOOLEAN ELSE {FALSE}),
                    d \in (IF entry = "pdf.spans.manual" THEN {{}, {"footnote"}} ELSE {{}}),
                    e \in (IF entry = "pdf.spans.manual" THEN BOOLEAN ELSE {FALSE})}
    /\ InitRun
    /\ source = <<>> /\ ocr_input = <<>> /\ folded = <<>>

\* LayoutStream.__init__ as both recipes call it, and the choice get_stream
\* makes between the two generators.
LayoutStream_init ==
    /\ entry \in {"pdf.spans.manual", "pdf.layout.fetch"} /\ pc = "start"
    /\ ~args.from_file
    /\ IF ~exists
       THEN /\ error' = "RecipeError: Can't load from directory"
            /\ pc' = "raised"
            /\ UNCHANGED <<paths, msgs>>
       ELSE /\ paths' = layout_paths
            /\ msgs' = IF entry = "pdf.layout.fetch" THEN Append(msgs, "Creating preprocessed PDFs")
                       ELSE msgs
            /\ pc' = IF args.focus # {} THEN "focus_for" ELSE "full_for"
            /\ UNCHANGED error
    /\ UNCHANGED <<entry, fsvars, args, loc, handles, held, nopened, hashed, out, db,
                   config, jsonl, source, ocr_input, folded>>

\* The start of one iteration of  for file_path in self.paths, in either
\* generator: the layout call and pdf_to_images, which opens the document,
\* renders every page and returns without closing it.
AtFileLoop ==
    \/ pc \in {"full_for", "focus_for"}
    \/ pc = "full_page" /\ loc.pn = npages[paths[loc.fi]] /\ args.split_pages
    \/ pc = "focus_span" /\ loc.pn = npages[paths[loc.fi]]

InFocus == pc \in {"focus_for", "focus_span"}

layout_file ==
    /\ AtFileLoop /\ loc.fi < Len(paths)
    /\ LET file_path == paths[loc.fi + 1]
       IN  IF stream_hide
           THEN /\ loc' = [loc EXCEPT !.fi = loc.fi + 1, !.pn = 0, !.si = 1, !.pages = <<>>,
                                      !.images = <<>>]
                /\ UNCHANGED <<handles, nopened>>
           ELSE /\ loc' = [loc EXCEPT !.fi = loc.fi + 1, !.pn = 0, !.si = 1, !.pages = <<>>,
                                      !.images = [k \in 1..npages[file_path] |->
                                                     page_to_image(file_path, k - 1)]]
                /\ nopened' = nopened + 1
                /\ handles' = handles \cup {nopened + 1}
    /\ held' = 0
    /\ pc' = IF InFocus THEN "focus_span" ELSE "full_page"
    /\ UNCHANGED <<entry, fsvars, args, error, msgs, paths, hashed, out, db, config,
                   jsonl, source, ocr_input, folded>>

\* One iteration of the page loop of get_full_stream.
full_stream_page ==
    /\ pc = "full_page" /\ loc.pn < npages[paths[loc.fi]]
    /\ LET file_path == paths[loc.fi]
           page == full_page(file_path, loc.pn, loc.images)
       IN  /\ loc' = [loc EXCEPT !.pn = loc.pn + 1, !.pages = Append(loc.pages, page)]
           /\ IF args.split_pages
              THEN Emit(set_hashes(Set("meta", [title |-> file_path, page |-> loc.pn + 1], page)))
              ELSE UNCHANGED <<hashed, out, jsonl>>
    /\ UNCHANGED <<entry, fsvars, args, pc, error, msgs, paths, handles, held, nopened,
                   db, config, source, ocr_input, folded>>

\* if not self.split_pages: yield set_hashes({"pages": pages, "meta": ...})
full_stream_bundle ==
    /\ pc = "full_page" /\ loc.pn = npages[paths[loc.fi]] /\ ~args.split_pages
    /\ Emit(set_hashes([pages |-> loc.pages, meta |-> [title |-> paths[loc.fi]]]))
    /\ pc' = "full_for"
    /\ UNCHANGED <<entry, fsvars, args, error, msgs, paths, loc, handles, held, nopened,
                   db, config, source, ocr_input, folded>>

\* One iteration of  for span in page_spans  of get_focus_stream.
focus_stream_span ==
    /\ pc = "focus_span" /\ loc.pn < npages[paths[loc.fi]]
    /\ LET page_spans == pagespans[loc.pn]
           last == loc.si = Len(page_spans)
       IN  /\ loc' = [loc EXCEPT !.si = IF last THEN 1 ELSE loc.si + 1,
                                 !.pn = IF last THEN loc.pn + 1 ELSE loc.pn]
           /\ IF page_spans[loc.si].label \in args.focus
              THEN Emit(set_hashes(focus_task(paths[loc.fi], loc.pn, loc.si, loc.images)))
              ELSE UNCHANGED <<hashed, out, jsonl>>
    /\ UNCHANGED <<entry, fsvars, args, pc, error, msgs, paths, handles, held, nopened,
                   db, config, source, ocr_input, folded>>

\* The last file is done: the generator returns; pdf.layout.fetch then
\* reports that it saved its output.
layout_end ==
    /\ AtFileLoop /\ loc.fi = Len(paths)
    /\ pc' = "done"
    /\ msgs' = IF entry = "pdf.layout.fetch" THEN Append(msgs, "Saved fetched data") ELSE msgs
    /\ UNCHANGED <<entry, fsvars, args, error, paths, loc, handles, held, nopened, hashed,
                   out, db, config, jsonl, source, ocr_input, folded>>

\* pdf.spans.manual started on the file pdf.layout.fetch wrote:
\* source.endswith(".jsonl"), so stream = get_stream(source).  It is a new
\* process: the handles of the process that wrote the file are gone.
pdf_spans_manual_from_file ==
    /\ entry = "pdf.layout.fetch" /\ pc = "done"
    /\ entry' = "pdf.spans.manual"
    /\ \E h \in BOOLEAN, d \in {{}, {"footnote"}}, e \in BOOLEAN :
          args' = [args EXCEPT !.from_file = TRUE, !.hide_preview = h, !.disable = d,
                               !.add_ents = e]
    /\ pc' = "load"
    /\ loc' = NoLoc
    /\ hashed' = <<>> /\ out' = <<>>
    /\ handles' = {} /\ held' = 0 /\ nopened' = 0
    /\ UNCHANGED <<fsvars, error, msgs, paths, db, config, jsonl, source, ocr_input, folded>>

\* The consumer pulls the next task of the loaded file through the wrappers.
load_task ==
    /\ entry = "pdf.spans.manual" /\ pc = "load" /\ loc.fi < Len(jsonl)
    /\ loc' = [loc EXCEPT !.fi = loc.fi + 1]
    /\ Emit(jsonl[loc.fi + 1])
    /\ UNCHANGED <<entry, fsvars, args, pc, error, msgs, paths, handles, held, nopened,
                   db, config, source, ocr_input, folded>>

load_end ==
    /\ entry = "pdf.spans.manual" /\ pc = "load" /\ loc.fi = Len(jsonl)
    /\ pc' = "done"
    /\ UNCHANGED <<entry, fsvars, args, error, msgs, paths, loc, handles, held, nopened,
                   hashed, out, db, config, jsonl, source, ocr_input, folded>>

\* A PdfDocument nothing refers to any more may be closed by its finalizer
\* at any later moment, or never.
finalize ==
    /\ \E h \in handles \ {held} : handles' = handles \ {h}
    /\ UNCHANGED <<entry, fsvars, args, pc, error, msgs, paths, loc, held, nopened, hashed,
                   out, db, config, jsonl, source, ocr_input, folded>>

(* ---------------------------- pdf.ocr.correct ------------------------ *)

\* Regions drawn in pdf.image.manual, in unscaled page coordinates.
RegionX == [label |-> "x", x |-> 1, y |-> 2, width |-> 3, height |-> 1, id |-> 1]

RegionY == [label |-> "y", x |-> 0, y |-> 4, width |-> 2, height |-> 2, id |-> 2]

\* Examples the source of pdf.ocr.correct may hold: annotated pages of
\* pdf.image.manual, and examples that lack one of the keys the recipe needs.
OcrExamples ==
    { [path |-> "a.pdf", meta |-> [title |-> "a.pdf", page |-> 0], spans |-> <<RegionX, RegionY>>],
      [path |-> "a.pdf", meta |-> [title |-> "a.pdf", page |-> 1]],
      [meta |-> [title |-> "a.pdf", page |-> 0], spans |-> <<RegionX>>],
      [path |-> "a.pdf", spans |-> <<RegionX>>],
      [path |-> "a.pdf", meta |-> [title |-> "a.pdf"], spans |-> <<RegionY, RegionX>>] }

\* Annotated pages with one region of any position and extent.
RegionExamples ==
    { [path |-> "a.pdf", meta |-> [title |-> "a.pdf", page |-> 0],
       spans |-> <<[label |-> "x", x |-> x, y |-> y, width |-> w, height |-> h, id |-> 3]>>] :
         x \in 0..MaxCoord, y \in 0..MaxCoord, w \in 1..MaxCoord, h \in 1..MaxCoord }

\* The sources: up to MaxSource examples, the first of which may be one of
\* the pages with an arbitrary region.
OcrSources ==
    (UNION {[1..n -> OcrExamples] : n \in 1..MaxSource})
    \cup {<<r>> \o s : r \in RegionExamples,
                       s \in UNION {[1..n -> OcrExamples] : n \in 0..(MaxSource - 1)}}

\* What the OCR engine may read in a crop.
OcrSamples == { <<"a", "-", "\n", "a">>, <<"a", "-", "a">>, <<"a", "\n", "a">> }

InitOcr ==
    /\ entry = "pdf.ocr.correct"
    /\ exists = TRUE /\ dir = {"a.pdf"} /\ npages = [n \in PdfNames |-> IF n = "a.pdf" THEN MaxPages ELSE 1]
    /\ pagespans = <<>>
    /\ args \in {[DefaultArgs EXCEPT !.scale = sc, !.fold_dashes = f, !.ocr_labels = l] :
                    sc \in 1..MaxScale, f \in BOOLEAN, l \in {{"x"}, {"x", "y"}}}
    /\ InitRun
    /\ source \in OcrSources
    /\ ocr_input = <<>> /\ folded = <<>>

\* The recipe function: it builds the stream and returns the components.
pdf_ocr_correct ==
    /\ entry = "pdf.ocr.correct" /\ pc = "start"
    /\ pc' = "ocr_for"
    /\ config' = [blocks |-> <<[view_id |-> "classification"], [view_id |-> "text_input"]>>]
    /\ UNCHANGED <<entry, fsvars, args, error, msgs, paths, loc, handles, held, nopened,
                   hashed, out, db, jsonl, source, ocr_input, folded>>

\* _validate_ocr_example without its test of the `path` key.
validation_error_without_path(eg) ==
    IF "meta" \notin DOMAIN eg THEN "ValueError: meta"
    ELSE IF "page" \notin DOMAIN eg["meta"] THEN "ValueError: page"
    ELSE ""

\* The failure _validate_ocr_example raises for an example ("" for none).
validation_error(eg) ==
    IF "meta" \notin DOMAIN eg THEN "ValueError: meta"
    ELSE IF "path" \notin DOMAIN eg THEN "ValueError: path"
    ELSE IF "page" \notin DOMAIN eg["meta"] THEN "ValueError: page"
    ELSE ""

AtExampleLoop ==
    \/ pc = "ocr_for"
    \/ pc = "ocr_annot" /\ loc.si > Len(loc.useful_spans)

\* stream.apply(_validate_ocr_example): the next example of the source is
\* pulled through the validation generator.
validate_ocr_example ==
    /\ entry = "pdf.ocr.correct" /\ AtExampleLoop /\ loc.fi < Len(source)
    /\ LET eg == source[loc.fi + 1]
       IN  IF validation_error(eg) # ""
           THEN error' = validation_error(eg) /\ pc' = "raised"
           ELSE pc' = "ocr_ex" /\ UNCHANGED error
    /\ loc' = [loc EXCEPT !.fi = loc.fi + 1]
    /\ UNCHANGED <<entry, fsvars, args, msgs, paths, handles, held, nopened, hashed, out,
                   db, config, jsonl, source, ocr_input, folded>>

\* The head of the loop body of new_stream: the spans to transcribe and,
\* when there are any, the document and the rendered page.  The call
\* _validate_ocr_example(ex) of line 199 only creates a generator that is
\* never run.  ex["path"] is read before the document is opened and
\* ex["meta"]["page"] after it: a missing key raises KeyError there.
new_stream_example ==
    /\ entry = "pdf.ocr.correct" /\ pc = "ocr_ex"
    /\ LET ex == source[loc.fi]
           spans == Get(ex, "spans", <<>>)
           useful_spans == SelectSeq(spans, LAMBDA span : span["label"] \in args.ocr_labels)
           has_page == "meta" \in DOMAIN ex /\ "page" \in DOMAIN ex["meta"]
       IN  IF useful_spans = <<>>
           THEN /\ loc' = [loc EXCEPT !.useful_spans = useful_spans, !.si = 1]
                /\ pc' = "ocr_annot"
                /\ UNCHANGED <<nopened, handles, held, error>>
           ELSE IF "path" \notin DOMAIN ex
           THEN /\ error' = "KeyError" /\ pc' = "raised"
                /\ UNCHANGED <<nopened, handles, held, loc>>
           ELSE /\ nopened' = nopened + 1
                /\ handles' = handles \cup {nopened + 1}
                /\ held' = nopened + 1
                /\ IF has_page
                   THEN /\ loc' = [loc EXCEPT !.useful_spans = useful_spans, !.si = 1,
                                              !.pil_page = [path |-> ex["path"],
                                                            page |-> ex["meta"]["page"],
                                                            scale |-> args.scale]]
                        /\ pc' = "ocr_annot"
                        /\ UNCHANGED error
                   ELSE /\ error' = "KeyError" /\ pc' = "raised"
                        /\ UNCHANGED loc
    /\ UNCHANGED <<entry, fsvars, args, msgs, paths, hashed, out, db, config,
                   jsonl, source, ocr_input, folded>>

\* page_to_cropped_image with the scale left off the right and lower edges.
crop_box_unscaled_extent(span, scale) ==
    LET left == span["x"]
        upper == span["y"]
    IN  <<left * scale, upper * scale,
          left * scale + span["width"], upper * scale + span["height"]>>

\* The pixel box page_to_cropped_image crops.
crop_box(span, scale) ==
    LET left == span["x"]
        upper == span["y"]
        right == left + span["width"]
        lower == upper + span["height"]
    IN  <<left * scale, upper * scale, right * scale, lower * scale>>

page_to_cropped_image(pil_page, span, scale) ==
    [scheme |-> "data:", mime |-> "image/png;base64,",
     of |-> [page |-> pil_page, box |-> crop_box(span, scale)]]

\* One iteration of  for annot in useful_spans: crop, OCR, and the task.
new_stream_annot ==
    /\ entry = "pdf.ocr.correct" /\ pc = "ocr_annot" /\ loc.si <= Len(loc.useful_spans)
    /\ \E read \in OcrSamples :
          LET ex == source[loc.fi]
              annot == loc.useful_spans[loc.si]
              text == IF args.fold_dashes THEN fold_ocr_dashes(read) ELSE read
              a1 == Set("image", page_to_cropped_image(loc.pil_page, annot, args.scale), annot)
              a2 == Set("transcription", text, Set("text", text, a1))
              a3 == Del("id", Set("meta", ex["meta"], a2))
              task == set_hashes([field_rows |-> 12, field_label |-> "Transcript",
                                  field_id |-> "transcription",
                                  field_autofocus |-> args.autofocus] @@ a3)
          IN  /\ hashed' = Append(hashed, task)
              /\ out' = Append(out, task)
    /\ loc' = [loc EXCEPT !.si = loc.si + 1]
    /\ UNCHANGED <<entry, fsvars, args, pc, error, msgs, paths, handles, held, nopened,
                   db, config, jsonl, source, ocr_input, folded>>

\* The source is exhausted: the stream ends.
new_stream_end ==
    /\ entry = "pdf.ocr.correct" /\ AtExampleLoop /\ loc.fi = Len(source)
    /\ pc' = "done"
    /\ UNCHANGED <<entry, fsvars, args, error, msgs, paths, loc, handles, held, nopened,
                   hashed, out, db, config, jsonl, source, ocr_input, folded>>

(* ------------------------------ the run ------------------------------- *)

Init == InitImage \/ InitFold \/ InitLayout \/ InitOcr

Next ==
    \/ pdf_image_manual
    \/ gpp_open
    \/ gpp_page
    \/ gpp_bundle
    \/ gpp_close
    \/ gpp_end
    \/ store_image
    \/ call_fold_ocr_dashes
    \/ LayoutStream_init
    \/ layout_file
    \/ full_stream_page
    \/ full_stream_bundle
    \/ focus_stream_span
    \/ layout_end
    \/ pdf_spans_manual_from_file
    \/ load_task
    \/ load_end
    \/ finalize
    \/ pdf_ocr_correct
    \/ validate_ocr_example
    \/ new_stream_example
    \/ new_stream_annot
    \/ new_stream_end

Spec == Init /\ [][Next]_vars

(* ------------------------------ the claims ---------------------------- *)

\* C1: generate_pdf_pages with its default arguments (split_pages is False)
\* on a list of PDF paths has, once it is exhausted, yielded exactly one
\* record per page of those PDFs, and every record has an 'image' that is a
\* data URI.
C1_OneRecordPerPage ==
    (/\ entry = "pdf.image.manual" /\ pc = "done"
     /\ ~args.split_pages
     /\ \A i \in DOMAIN paths : IsPdf(paths[i]))
    => /\ Len(out) = sum_seq([i \in DOMAIN paths |-> npages[paths[i]]])
       /\ \A k \in DOMAIN out : /\ "image" \in DOMAIN out[k]
                                /\ startswith_data(out[k]["image"])

\* C2: the result of fold_ocr_dashes is the lines of its input, each
\* stripped, joined so that a line ending with a dash loses only that dash
\* and meets the next line without a space, and any other line keeps all of
\* its characters and is followed by one space.
C2_FoldsOnlyTrailingDashes ==
    LET kept(raw) ==
            LET line == strip(raw)
            IN  IF line # <<>> /\ line[Len(line)] = "-"
                THEN SubSeq(line, 1, Len(line) - 1)
                ELSE line \o <<" ">>
        lines == split(ocr_input, "\n")
    IN  (entry = "fold_ocr_dashes" /\ pc = "done")
        => folded = strip(Concat([i \in DOMAIN lines |-> kept(lines[i])]))

\* C3: in every task the LayoutStream built (a page, nested or not, or a
\* focused span) every token has start <= end, the starts never decrease
\* along the tokens, and the end of the last token is the length of the
\* task's text.
C3_TokenOffsetsCoverText ==
    LET ok(t) ==
            /\ \A i \in DOMAIN t["tokens"] : t["tokens"][i]["start"] <= t["tokens"][i]["end"]
            /\ \A i \in DOMAIN t["tokens"] : \A j \in DOMAIN t["tokens"] :
                  i <= j => t["tokens"][i]["start"] <= t["tokens"][j]["start"]
            /\ t["tokens"][Len(t["tokens"])]["end"] = Len(t["text"])
    IN  (entry \in {"pdf.spans.manual", "pdf.layout.fetch"} /\ ~args.from_file)
        => \A k \in DOMAIN hashed :
              /\ "tokens" \in DOMAIN hashed[k] => ok(hashed[k])
              /\ "pages" \in DOMAIN hashed[k]
                 => \A p \in DOMAIN hashed[k]["pages"] : ok(hashed[k]["pages"][p])

\* C4: in every task the LayoutStream built, the characters of the text
\* from a token's start up to its end are the token's text.
C4_TokenOffsetsIndexText ==
    LET ok(t) ==
            \A i \in DOMAIN t["tokens"] :
               LET tok == t["tokens"][i]
               IN  /\ tok["end"] <= Len(t["text"])
                   /\ SubSeq(t["text"], tok["start"] + 1, tok["end"]) = tok["text"]
    IN  (entry \in {"pdf.spans.manual", "pdf.layout.fetch"} /\ ~args.from_file)
        => \A k \in DOMAIN hashed :
              /\ "tokens" \in DOMAIN hashed[k] => ok(hashed[k])
              /\ "pages" \in DOMAIN hashed[k]
                 => \A p \in DOMAIN hashed[k]["pages"] : ok(hashed[k]["pages"][p])

\* C5: once a recipe has looked at an existing folder that holds no file it
\* takes, the run has ended in a failure, and that failure is not the one
\* of a missing folder.
C5_NoFilesIsAFailure ==
    LET no_files ==
            \/ entry = "pdf.image.manual" /\ glob = {}
            \/ /\ entry \in {"pdf.spans.manual", "pdf.layout.fetch"}
               /\ ~args.from_file /\ layout_paths = <<>>
    IN  (exists /\ no_files /\ pc # "start")
        => /\ pc \in {"exited", "raised"}
           /\ error # "RecipeError: Can't load from directory"
           /\ "Folder does not exist." \notin Range(msgs)

\* C6: in pdf.spans.manual with a disable list, every token of every task
\* the consumer received, at the top level or in a nested page, is disabled
\* when its layout role is in the list and is as the stream built it when it
\* is not.
C6_DisabledInEveryTask ==
    LET ok(t, h) ==
            \A i \in DOMAIN t["tokens"] :
               LET tok == t["tokens"][i]
               IN  IF tok["layout"] \in args.disable
                   THEN "disabled" \in DOMAIN tok /\ tok["disabled"]
                   ELSE tok = h["tokens"][i]
    IN  (entry = "pdf.spans.manual" /\ args.disable # {})
        => \A k \in DOMAIN out :
              /\ "tokens" \in DOMAIN out[k] => ok(out[k], hashed[k])
              /\ "pages" \in DOMAIN out[k]
                 => \A p \in DOMAIN out[k]["pages"] :
                       ok(out[k]["pages"][p], hashed[k]["pages"][p])

\* C7: in pdf.spans.manual with hide_preview, no task the consumer received
\* has an image or an image block, at the top level or in a nested page.
C7_NoImageWhenHidden ==
    LET blocks(t) == IF "config" \in DOMAIN t THEN Get(t["config"], "blocks", <<>>) ELSE <<>>
        bare(t) == /\ "image" \notin DOMAIN t
                   /\ \A b \in DOMAIN blocks(t) : blocks(t)[b]["view_id"] # "image"
    IN  (entry = "pdf.spans.manual" /\ args.hide_preview)
        => \A k \in DOMAIN out :
              /\ bare(out[k])
              /\ "pages" \in DOMAIN out[k]
                 => \A p \in DOMAIN out[k]["pages"] : bare(out[k]["pages"][p])

\* C8: with remove_base64, before_db of pdf_image_manual never raises, and
\* no stored example has a data URI image, at the top level or in a page.
C8_BeforeDbStripsImages ==
    LET bare(t) == "image" \in DOMAIN t => ~startswith_data(t["image"])
    IN  (entry = "pdf.image.manual" /\ args.remove_base64)
        => /\ error # "KeyError"
           /\ \A k \in DOMAIN db :
                 /\ bare(db[k])
                 /\ "pages" \in DOMAIN db[k]
                    => \A p \in DOMAIN db[k]["pages"] : bare(db[k]["pages"][p])

\* C9: pdf_image_manual, given distinct labels, returns a theme in which
\* label i has colour i mod 14 of the palette, however many labels there are.
C9_ColoursCycle ==
    LET labs == split(args.labels, ",")
    IN  (/\ entry = "pdf.image.manual" /\ exists /\ pc # "start"
         /\ \A i, j \in DOMAIN labs : labs[i] = labs[j] => i = j)
        => /\ error # "IndexError"
           /\ "custom_theme" \in DOMAIN config
           /\ \A i \in DOMAIN labs :
                 config["custom_theme"]["labels"][labs[i]] = color[((i - 1) % Len(color)) + 1]

\* C10: at most one PdfDocument handle is open at any time, and none is
\* open when the stream is exhausted.
C10_OneHandleAtATime ==
    /\ Cardinality(handles) <= 1
    /\ pc = "done" => handles = {}

\* C11: in pdf.spans.manual every task reaches the consumer with the content
\* (text, tokens, spans, image, config, nested pages) it had when set_hashes
\* computed its hashes: no wrapper changes a task that is already hashed.
\* Stated for the runs without --add-ents, where every wrapper that acts is
\* one of this repository (disable_tokens, remove_preview).
C11_HashedTasksUnchanged ==
    LET content == {"text", "tokens", "spans", "image", "config", "pages"}
    IN  (entry = "pdf.spans.manual" /\ ~args.add_ents)
        => \A k \in DOMAIN out :
              \A f \in content :
                 /\ f \in DOMAIN out[k] <=> f \in DOMAIN hashed[k]
                 /\ f \in DOMAIN out[k] => out[k][f] = hashed[k][f]

\* C12: in pdf.ocr.correct, the step that consumes an example lacking
\* 'path', 'meta' or 'page' in 'meta' ends the run with the validation
\* error and opens no document, renders no page and yields no task; and
\* once the run has failed nothing is opened, rendered or yielded any more.
C12_ValidationPrecedesProcessing ==
    [][LET lacks(eg) == \/ "path" \notin DOMAIN eg
                        \/ "meta" \notin DOMAIN eg
                        \/ "page" \notin DOMAIN eg["meta"]
           untouched == /\ nopened' = nopened
                        /\ handles' \subseteq handles
                        /\ out' = out
                        /\ hashed' = hashed
                        /\ loc'.pil_page = loc.pil_page
       IN  entry = "pdf.ocr.correct"
           => /\ (loc'.fi = loc.fi + 1 /\ lacks(source[loc'.fi]))
                 => /\ pc' = "raised"
                    /\ error' \in {"ValueError: meta", "ValueError: path", "ValueError: page"}
                    /\ untouched
              /\ pc = "raised" => (pc' = "raised" /\ error' = error /\ untouched)]_vars

\* C12 witness: the second example of the source lacked a key and raised the
\* validation error, after a first example was transcribed.
C12_Witness ==
    /\ entry = "pdf.ocr.correct" /\ pc = "raised"
    /\ error \in {"ValueError: meta", "ValueError: path", "ValueError: page"}
    /\ loc.fi = 2 /\ nopened = 1 /\ Len(out) >= 1

\* C13: every task pdf.ocr.correct yields was cropped with the box
\* (x*s, y*s, (x+width)*s, (y+height)*s), s being the scale the page was
\* rendered at (the recipe's scale); that box is, component by component,
\* s times the box the crop takes for the same region at scale 1.
C13_CropBoxScales ==
    entry = "pdf.ocr.correct"
    => \A k \in DOMAIN out :
          LET t == out[k]
              box == t["image"]["of"]["box"]
              s == t["image"]["of"]["page"]["scale"]
          IN  /\ s = args.scale
              /\ box = <<t["x"] * s, t["y"] * s,
                         (t["x"] + t["width"]) * s, (t["y"] + t["height"]) * s>>
              /\ \A i \in 1..4 : box[i] = s * crop_box(t, 1)[i]

\* C13 witness: a task cropped from a page rendered at a scale above 1, for
\* a region away from the page's origin.
C13_Witness ==
    /\ entry = "pdf.ocr.correct"
    /\ \E k \in DOMAIN out :
          /\ out[k]["image"]["of"]["page"]["scale"] >= 2
          /\ out[k]["x"] >= 1 /\ out[k]["y"] >= 1
          /\ out[k]["image"]["of"]["box"][3] > out[k]["image"]["of"]["box"][1]

====
